---- MODULE Spec2Model ----
(***************************************************************************)
(* RUNE system for a virtual tabletop: the dice resolution of              *)
(* RuneActor.rollCheck / RuneActor.rollAttack, the window.RUNE helpers     *)
(* that look the actors up, the stamina bookkeeping of                     *)
(* RuneActor.applyDamage / healStamina together with the data preparation  *)
(* the host runs after every update, the armor aggregation over an actor's *)
(* items, and the quick-roll macros created on hotbar drops.               *)
(***************************************************************************)
EXTENDS Integers, Sequences, FiniteSets, TLC

VARIABLES actors, call, frame, messages, notifications,
          updates, pending, macros, hotbar, drops

vars == <<actors, call, frame, messages, notifications,
          updates, pending, macros, hotbar, drops>>

\* the state of the macro bar, which only the hotbar drops touch
macroVars == <<macros, hotbar, drops>>

----------------------------------------------------------------------------
(* Bounds of the exploration *)

\* largest |advantage| a call is made with (the sheet dialog offers -2..2)
MaxAdv == 2
\* largest stamina maximum / stored stamina value of an actor
MaxStamina == 5
\* largest amount handed to applyDamage
MaxAmount == 7
\* longest chat log of the stamina specification
MaxMessages == 2

(* Program constants *)

\* `${numDice}d6`
DieFaces == 6
\* the two dice every roll starts from: 2 + Math.abs(advantage)
BaseDice == 2
\* Math.min(totalArmor, 3) for a player character
PcArmorCap == 3

----------------------------------------------------------------------------
(* JavaScript built-ins as the handlers use them *)

Abs(n) == IF n < 0 THEN -n ELSE n

MathMax(a, b) == IF a >= b THEN a ELSE b

MathMin(a, b) == IF a <= b THEN a ELSE b

\* Math.clamp of the host: Math.min(Math.max(num, min), max)
MathClamp(num, lo, hi) == MathMin(MathMax(num, lo), hi)

\* insert die d into a sequence that is already in descending order
RECURSIVE InsertDesc(_, _)
InsertDesc(d, s) ==
  IF s = <<>> THEN <<d>>
  ELSE IF d >= Head(s) THEN <<d>> \o s
  ELSE <<Head(s)>> \o InsertDesc(d, Tail(s))

RECURSIVE InsertAsc(_, _)
InsertAsc(d, s) ==
  IF s = <<>> THEN <<d>>
  ELSE IF d <= Head(s) THEN <<d>> \o s
  ELSE <<Head(s)>> \o InsertAsc(d, Tail(s))

RECURSIVE SortAsc(_)
SortAsc(s) == IF s = <<>> THEN <<>> ELSE InsertAsc(Head(s), SortAsc(Tail(s)))

\* results.sort((a, b) => b - a)
RECURSIVE SortDesc(_)
SortDesc(s) == IF s = <<>> THEN <<>> ELSE InsertDesc(Head(s), SortDesc(Tail(s)))

\* Array.prototype.slice(begin, end): a negative index counts from the end,
\* both ends are clipped to the array (indices here are 0-based as in JS)
SliceIndex(i, len) == IF i < 0 THEN MathMax(len + i, 0) ELSE MathMin(i, len)

Slice(s, begin, end) ==
  LET b == SliceIndex(begin, Len(s))
      e == SliceIndex(end, Len(s))
  IN  IF e <= b THEN <<>> ELSE SubSeq(s, b + 1, e)

\* slice(begin) with the end left out
SliceFrom(s, begin) == Slice(s, begin, Len(s))

\* selectedDice.reduce((sum, die) => sum + die, 0)
RECURSIVE Sum(_)
Sum(s) == IF s = <<>> THEN 0 ELSE Head(s) + Sum(Tail(s))

----------------------------------------------------------------------------
(* Derived data of an actor *)

RECURSIVE SumOver(_, _, _)
SumOver(items, ids, field) ==
  IF ids = {} THEN 0
  ELSE LET i == CHOOSE x \in ids : TRUE
           item == items[i]
           add == IF item.type = "armor" /\ item.system.equipped
                  THEN item.system[field] ELSE 0
       IN  add + SumOver(items, ids \ {i}, field)

\* ActorDataModel.prepareDerivedData: clamp the prepared stamina value
ClampStamina(stamina) ==
  [stamina EXCEPT !.value = MathClamp(stamina.value, 0, stamina.max)]

ActorPrepareDerivedDataCapAll(actor) ==
  LET totalArmor == SumOver(actor.items, DOMAIN actor.items, "armorValue")
      totalMagicResist == SumOver(actor.items, DOMAIN actor.items, "magicResistValue")
  IN  [actor EXCEPT !.system.armor = MathMin(totalArmor, PcArmorCap),
                    !.system.magicResist = MathMin(totalMagicResist, PcArmorCap)]

\* RuneActor.prepareDerivedData: armor / magicResist from the equipped armor
ActorPrepareDerivedData(actor) ==
  LET totalArmor == SumOver(actor.items, DOMAIN actor.items, "armorValue")
      totalMagicResist == SumOver(actor.items, DOMAIN actor.items, "magicResistValue")
  IN  IF actor.type = "character"
      THEN [actor EXCEPT !.system.armor = MathMin(totalArmor, PcArmorCap),
                         !.system.magicResist = MathMin(totalMagicResist, PcArmorCap)]
      ELSE [actor EXCEPT !.system.armor = totalArmor,
                         !.system.magicResist = totalMagicResist]

\* the host's preparation cycle: the prepared stamina value restarts from the
\* stored one, then the data model's and the document's prepareDerivedData run
PrepareData(actor) ==
  ActorPrepareDerivedData(
    [actor EXCEPT !.system.stamina =
       ClampStamina([value |-> actor.source.stamina.value,
                     max |-> actor.source.stamina.max])])

\* this.update({"system.stamina.value": v}): store, then prepare again
UpdateStaminaValue(actor, v) ==
  PrepareData([actor EXCEPT !.source.stamina.value = v])

----------------------------------------------------------------------------
(* The dice resolution shared by rollCheck and rollAttack *)

\* this.system.approaches[approach] || 0
ApproachValue(actor, approach) ==
  IF approach \in DOMAIN actor.system.approaches
  THEN actor.system.approaches[approach]
  ELSE 0

NumDiceSigned(advantage) == BaseDice + advantage

\* const numDice = 2 + Math.abs(advantage)
NumDice(advantage) == BaseDice + Abs(advantage)

\* what new Roll(`${numDice}d6`).evaluate() can yield
RollResults(numDice) == [1..numDice -> 1..DieFaces]

SortedDiceAsc(results) == SortAsc(results)

\* roll.dice[0].results.map(r => r.result).sort((a, b) => b - a)
SortedDice(results) == SortDesc(results)

SelectDiceAlwaysFirst(sortedDice, advantage) == Slice(sortedDice, 0, 2)

\* advantage: highest 2; disadvantage: lowest 2; else the first 2
SelectDice(sortedDice, advantage) ==
  IF advantage > 0 THEN Slice(sortedDice, 0, 2)
  ELSE IF advantage < 0 THEN SliceFrom(sortedDice, -2)
  ELSE Slice(sortedDice, 0, 2)

TotalDiceOnly(selectedDice, approachValue) == Sum(selectedDice)

\* diceTotal + approachValue
Total(selectedDice, approachValue) == Sum(selectedDice) + approachValue

\* selectedDice[i] === v (0-based i); an index past the end reads undefined,
\* which equals no number
DieIs(selectedDice, i, v) == (i + 1) \in DOMAIN selectedDice /\ selectedDice[i + 1] = v

\* selectedDice[0] === 6 && selectedDice[1] === 6
IsGlory(selectedDice) == DieIs(selectedDice, 0, 6) /\ DieIs(selectedDice, 1, 6)

\* selectedDice[0] === 1 && selectedDice[1] === 1
IsRuin(selectedDice) == DieIs(selectedDice, 0, 1) /\ DieIs(selectedDice, 1, 1)

CheckOutcomeClassTotalFirst(selectedDice, total) ==
  IF total >= 10 THEN "success"
  ELSE IF IsGlory(selectedDice) THEN "glory"
  ELSE IF IsRuin(selectedDice) THEN "ruin"
  ELSE IF total >= 6 THEN "complication"
  ELSE "failure"

CheckOutcomeClassStrict(selectedDice, total) ==
  IF IsGlory(selectedDice) THEN "glory"
  ELSE IF IsRuin(selectedDice) THEN "ruin"
  ELSE IF total > 10 THEN "success"
  ELSE IF total >= 6 THEN "complication"
  ELSE "failure"

\* the outcome ladder of rollCheck
CheckOutcomeClass(selectedDice, total) ==
  IF IsGlory(selectedDice) THEN "glory"
  ELSE IF IsRuin(selectedDice) THEN "ruin"
  ELSE IF total >= 10 THEN "success"
  ELSE IF total >= 6 THEN "complication"
  ELSE "failure"

CheckOutcomeText(outcomeClass) ==
  CASE outcomeClass = "glory" -> "GLORY! (6-6)"
    [] outcomeClass = "ruin" -> "RUIN! (1-1)"
    [] outcomeClass = "success" -> "SUCCESS!"
    [] outcomeClass = "complication" -> "COMPLICATION"
    [] OTHER -> "FAILURE"

\* RuneActor._getOutcomeDescription
GetOutcomeDescription(outcomeClass) ==
  CASE outcomeClass = "glory" -> "The character must be rewarded appropriately!"
    [] outcomeClass = "ruin" -> "Suffer all consequences and a major disaster!"
    [] outcomeClass = "success" -> "The action succeeds without problem."
    [] outcomeClass = "complication" -> "Partially successful. Something goes wrong."
    [] outcomeClass = "failure" -> "Suffer all of the action's consequences."
    [] OTHER -> ""

\* isMagic ? target.system.magicResist : target.system.armor
Resistance(target, isMagic) ==
  IF isMagic THEN target.system.magicResist ELSE target.system.armor

DamageUnclamped(attackTotal, resistance) == attackTotal - resistance

\* Math.max(0, attackTotal - resistance)
Damage(attackTotal, resistance) == MathMax(0, attackTotal - resistance)

AttackOutcomeGe(selectedDice, attackTotal, resistance) ==
  IF IsGlory(selectedDice) THEN "GLORY!"
  ELSE IF IsRuin(selectedDice) THEN "RUIN!"
  ELSE IF attackTotal >= resistance THEN "HIT!"
  ELSE "MISS"

\* the outcome ladder of rollAttack
AttackOutcome(selectedDice, attackTotal, resistance) ==
  IF IsGlory(selectedDice) THEN "GLORY!"
  ELSE IF IsRuin(selectedDice) THEN "RUIN!"
  ELSE IF attackTotal > resistance THEN "HIT!"
  ELSE IF attackTotal = resistance THEN "BLOCKED"
  ELSE "MISS"

AttackOutcomeClass(outcome) ==
  CASE outcome = "GLORY!" -> "glory"
    [] outcome = "RUIN!" -> "ruin"
    [] outcome = "HIT!" -> "success"
    [] outcome = "BLOCKED" -> "complication"
    [] OTHER -> "failure"

----------------------------------------------------------------------------
(* The world: game.actors *)

NoCall == [op |-> "none"]

\* an empty macro bar: no slot has a macro
NoHotbar == [slot \in {} |-> 0]

NoFrame == [op |-> "none"]

\* actor references a handler can hold besides an actor of game.actors
Null == "null"

Undefined == "undefined"

\* if (target) / if (!actor) / targetId ? ... : null
Truthy(ref) == ref \notin {Null, Undefined}

ApproachNames == {"might", "guile", "vision"}

ArmorItem(equipped, armorValue, magicResistValue) ==
  [type |-> "armor",
   system |-> [equipped |-> equipped, armorValue |-> armorValue,
               magicResistValue |-> magicResistValue]]

WeaponItem(equipped) == [type |-> "weapon", system |-> [equipped |-> equipped]]

\* an actor as stored, before the first preparation
StoredActor(name, type, approaches, staminaValue, staminaMax, items) ==
  [name |-> name, type |-> type, items |-> items,
   source |-> [stamina |-> [value |-> staminaValue, max |-> staminaMax]],
   system |-> [approaches |-> approaches,
               stamina |-> [value |-> staminaValue, max |-> staminaMax],
               armor |-> 0, magicResist |-> 0]]

HeroItems ==
  [i1 |-> ArmorItem(TRUE, 2, 1), i2 |-> WeaponItem(TRUE)]

OgreItems ==
  [i1 |-> ArmorItem(TRUE, 3, 2), i2 |-> ArmorItem(TRUE, 3, 2),
   i3 |-> ArmorItem(TRUE, 3, 2), i4 |-> ArmorItem(FALSE, 3, 3),
   i5 |-> WeaponItem(TRUE)]

Hero(staminaValue, staminaMax) ==
  PrepareData(StoredActor("Hero", "character",
                          [might |-> 0, guile |-> 3, vision |-> 9],
                          staminaValue, staminaMax, HeroItems))

Ogre ==
  PrepareData(StoredActor("Ogre", "creature",
                          [might |-> 3, guile |-> 1, vision |-> 0],
                          10, 10, OgreItems))

World(staminaValue, staminaMax) ==
  [hero |-> Hero(staminaValue, staminaMax), ogre |-> Ogre]

\* game.actors.get(id)
GetActor(id) == IF id \in DOMAIN actors THEN id ELSE Undefined

----------------------------------------------------------------------------
(* The calls a behaviour of the roll specification starts from *)

Advantages == (0 - MaxAdv)..MaxAdv

\* the three approaches of the schema and one the actor does not have
CallApproaches == ApproachNames \cup {"luck"}

RollCheckCalls ==
  [op : {"rollCheck"}, actor : {"hero"}, approach : CallApproaches,
   advantage : Advantages]

RollAttackCalls ==
  [op : {"rollAttack"}, actor : {"hero"}, approach : CallApproaches,
   target : {Null, "ogre"}, isMagic : BOOLEAN, advantage : Advantages]

RuneRollCheckCalls ==
  [op : {"RUNE.rollCheck"}, actorId : {"hero", "ghost"},
   approach : CallApproaches, advantage : Advantages]

RuneRollAttackCalls ==
  [op : {"RUNE.rollAttack"}, actorId : {"hero", "ghost"},
   approach : CallApproaches, targetId : {Null, "ogre", "ghost"},
   isMagic : BOOLEAN, advantage : Advantages]

----------------------------------------------------------------------------
(* RuneActor.rollCheck *)

\* the bindings of one run of rollCheck
RollCheckFrame(actor, approach, advantage, results) ==
  LET approachValue == ApproachValue(actor, approach)
      sortedDice == SortedDice(results)
      selectedDice == SelectDice(sortedDice, advantage)
      total == Total(selectedDice, approachValue)
      outcomeClass == CheckOutcomeClass(selectedDice, total)
  IN  [op |-> "rollCheck", approach |-> approach, advantage |-> advantage,
       approachValue |-> approachValue,
       numDice |-> NumDice(advantage), results |-> results,
       sortedDice |-> sortedDice, selectedDice |-> selectedDice,
       diceTotal |-> Sum(selectedDice), total |-> total,
       outcome |-> CheckOutcomeText(outcomeClass),
       outcomeClass |-> outcomeClass]

\* messageData of rollCheck
RollCheckMessage(actor, f) ==
  [kind |-> "check", speaker |-> actor.name,
   approach |-> f.approach, advantage |-> f.advantage,
   outcomeClass |-> f.outcomeClass, outcome |-> f.outcome,
   rolled |-> f.sortedDice,
   used |-> IF f.advantage # 0 THEN f.selectedDice ELSE <<>>,
   math |-> [dice |-> f.selectedDice, approachValue |-> f.approachValue,
             total |-> f.total],
   description |-> GetOutcomeDescription(f.outcomeClass),
   roll |-> f.results]

DoRollCheck(actorId, approach, advantage) ==
  \E results \in RollResults(NumDice(advantage)) :
    LET f == RollCheckFrame(actors[actorId], approach, advantage, results)
    IN  /\ frame' = f
        /\ messages' = Append(messages, RollCheckMessage(actors[actorId], f))
        /\ call' = NoCall
        /\ UNCHANGED <<actors, notifications, updates, pending, macroVars>>

RollCheck ==
  /\ call.op = "rollCheck"
  /\ DoRollCheck(call.actor, call.approach, call.advantage)

----------------------------------------------------------------------------
(* RuneActor.rollAttack *)

NoBindings == [x \in {} |-> 0]

TargetBlockUnguarded(target, isMagic, selectedDice, attackTotal) ==
  LET resistance == IF Truthy(target) THEN Resistance(actors[target], isMagic) ELSE 0
      outcome == AttackOutcome(selectedDice, attackTotal, resistance)
  IN  [resistance |-> resistance,
       damage |-> Damage(attackTotal, resistance),
       outcome |-> outcome,
       outcomeClass |-> AttackOutcomeClass(outcome)]

\* the bindings of the if (target) block, which exist only when it runs
TargetBlock(target, isMagic, selectedDice, attackTotal) ==
  IF Truthy(target)
  THEN LET resistance == Resistance(actors[target], isMagic)
           outcome == AttackOutcome(selectedDice, attackTotal, resistance)
       IN  [resistance |-> resistance,
            damage |-> Damage(attackTotal, resistance),
            outcome |-> outcome,
            outcomeClass |-> AttackOutcomeClass(outcome)]
  ELSE NoBindings

\* the bindings of one run of rollAttack
RollAttackFrame(actor, approach, target, isMagic, advantage, results) ==
  LET approachValue == ApproachValue(actor, approach)
      sortedDice == SortedDice(results)
      selectedDice == SelectDice(sortedDice, advantage)
      attackTotal == Total(selectedDice, approachValue)
      base == [op |-> "rollAttack", approach |-> approach,
               advantage |-> advantage, isMagic |-> isMagic,
               target |-> target,
               approachValue |-> approachValue,
               numDice |-> NumDice(advantage), results |-> results,
               sortedDice |-> sortedDice, selectedDice |-> selectedDice,
               diceTotal |-> Sum(selectedDice), total |-> attackTotal,
               isGlory |-> IsGlory(selectedDice),
               isRuin |-> IsRuin(selectedDice)]
  IN  base @@ TargetBlock(target, isMagic, selectedDice, attackTotal)

\* messageData of rollAttack: the target-info and attack-outcome blocks are
\* appended only inside if (target); the damage line only when damage > 0
RollAttackMessage(actor, target, f) ==
  LET head == [kind |-> "attack", speaker |-> actor.name,
               approach |-> f.approach, isMagic |-> f.isMagic,
               advantage |-> f.advantage,
               rolled |-> f.sortedDice,
               used |-> IF f.advantage # 0 THEN f.selectedDice ELSE <<>>,
               math |-> [dice |-> f.selectedDice,
                         approachValue |-> f.approachValue,
                         total |-> f.total],
               roll |-> f.results]
  IN  IF "outcome" \in DOMAIN f
      THEN head @@ [target |-> IF Truthy(target) THEN actors[target].name ELSE target,
                    resistance |-> f.resistance,
                    outcomeClass |-> f.outcomeClass, outcome |-> f.outcome]
                @@ (IF f.damage > 0 THEN [damage |-> f.damage] ELSE NoBindings)
      ELSE head

DoRollAttack(actorId, approach, target, isMagic, advantage) ==
  \E results \in RollResults(NumDice(advantage)) :
    LET f == RollAttackFrame(actors[actorId], approach, target, isMagic,
                             advantage, results)
    IN  /\ frame' = f
        /\ messages' = Append(messages, RollAttackMessage(actors[actorId], target, f))
        /\ call' = NoCall
        /\ UNCHANGED <<actors, notifications, updates, pending, macroVars>>

RollAttack ==
  /\ call.op = "rollAttack"
  /\ DoRollAttack(call.actor, call.approach, call.target, call.isMagic,
                  call.advantage)

----------------------------------------------------------------------------
(* window.RUNE.rollCheck / window.RUNE.rollAttack *)

ActorNotFoundSilent ==
  /\ frame' = [op |-> call.op, found |-> FALSE]
  /\ call' = NoCall
  /\ UNCHANGED <<actors, messages, notifications, updates, pending, macroVars>>

\* if (!actor) { ui.notifications.error("Actor not found!"); return; }
ActorNotFound ==
  /\ notifications' = Append(notifications, "Actor not found!")
  /\ frame' = [op |-> call.op, found |-> FALSE]
  /\ call' = NoCall
  /\ UNCHANGED <<actors, messages, updates, pending, macroVars>>

RuneRollCheck ==
  /\ call.op = "RUNE.rollCheck"
  /\ LET actor == GetActor(call.actorId)
     IN  IF ~Truthy(actor)
         THEN ActorNotFound
         ELSE DoRollCheck(actor, call.approach, call.advantage)

RuneTarget(targetId) == IF Truthy(targetId) THEN GetActor(targetId) ELSE Null

RuneRollAttack ==
  /\ call.op = "RUNE.rollAttack"
  /\ LET actor == GetActor(call.actorId)
     IN  IF ~Truthy(actor)
         THEN ActorNotFound
         ELSE DoRollAttack(actor, call.approach, RuneTarget(call.targetId),
                           call.isMagic, call.advantage)

----------------------------------------------------------------------------
(* The roll specification: one call, drawn at the start, is resolved *)

Init ==
  /\ actors = World(10, 10)
  /\ call \in RollCheckCalls \cup RollAttackCalls
                \cup RuneRollCheckCalls \cup RuneRollAttackCalls
  /\ frame = NoFrame
  /\ messages = <<>>
  /\ notifications = <<>>
  /\ updates = <<>>
  /\ pending = <<>>
  /\ macros = {}
  /\ hotbar = NoHotbar
  /\ drops = <<>>

Next == RollCheck \/ RollAttack \/ RuneRollCheck \/ RuneRollAttack

Spec == Init /\ [][Next]_vars

----------------------------------------------------------------------------
(* RuneActor.applyDamage *)

NewStaminaUnclamped(currentStamina, damage) == currentStamina - damage

NewStaminaFloorOne(currentStamina, damage) == MathMax(1, currentStamina - damage)

\* Math.max(0, currentStamina - damage)
NewStamina(currentStamina, damage) == MathMax(0, currentStamina - damage)

\* const isLethal = newStamina === 0
IsLethal(newStamina) == newStamina = 0

ApplyDamage(id, damage) ==
  LET currentStamina == actors[id].system.stamina.value
      newStamina == NewStamina(currentStamina, damage)
  IN  /\ call = NoCall
      /\ Len(messages) < MaxMessages
      /\ pending = <<>>
      /\ actors' = [actors EXCEPT ![id] = UpdateStaminaValue(@, newStamina)]
      /\ updates' = Append(updates, [actor |-> id, value |-> newStamina])
      /\ messages' = Append(messages,
                            [kind |-> "damage", name |-> actors[id].name,
                             damage |-> damage,
                             currentStamina |-> currentStamina,
                             newStamina |-> newStamina,
                             lethal |-> IsLethal(newStamina)])
      /\ frame' = [op |-> "applyDamage", actor |-> id, damage |-> damage,
                   currentStamina |-> currentStamina,
                   newStamina |-> newStamina,
                   isLethal |-> IsLethal(newStamina)]
      /\ UNCHANGED <<call, notifications, pending, macroVars>>

----------------------------------------------------------------------------
(* RuneActor.healStamina *)

HealedStaminaUnclamped(currentStamina, maxStamina, amount) == currentStamina + amount

\* Math.min(maxStamina, currentStamina + amount)
HealedStamina(currentStamina, maxStamina, amount) ==
  MathMin(maxStamina, currentStamina + amount)

HealsOrNoOp(actualHealing) == actualHealing >= 0

\* if (actualHealing > 0)
Heals(actualHealing) == actualHealing > 0

HealStamina(id, amount) ==
  LET currentStamina == actors[id].system.stamina.value
      maxStamina == actors[id].system.stamina.max
      newStamina == HealedStamina(currentStamina, maxStamina, amount)
      actualHealing == newStamina - currentStamina
  IN  /\ call = NoCall
      /\ pending = <<>>
      /\ Len(messages) < MaxMessages
      /\ IF Heals(actualHealing)
         THEN /\ actors' = [actors EXCEPT ![id] = UpdateStaminaValue(@, newStamina)]
              /\ updates' = Append(updates, [actor |-> id, value |-> newStamina])
              /\ messages' = Append(messages,
                                    [kind |-> "healing", name |-> actors[id].name,
                                     actualHealing |-> actualHealing,
                                     currentStamina |-> currentStamina,
                                     newStamina |-> newStamina])
         ELSE UNCHANGED <<actors, updates, messages>>
      /\ frame' = [op |-> "healStamina", actor |-> id, amount |-> amount,
                   currentStamina |-> currentStamina,
                   maxStamina |-> maxStamina,
                   newStamina |-> newStamina,
                   actualHealing |-> actualHealing]
      /\ UNCHANGED <<call, notifications, pending, macroVars>>

----------------------------------------------------------------------------
(* The stamina specification: calls on one actor, one after the other *)

\* the schema bounds neither stamina field, so a stored value or a maximum
\* below zero is a state the sheet can produce
StoredStaminaValues == (0 - 1)..(MaxStamina + 1)

StaminaMaxima == (0 - 1)..MaxStamina

DamageAmounts == (0 - 2)..MaxAmount

HealAmounts == (0 - 2)..MaxAmount

InitStamina ==
  /\ \E v \in StoredStaminaValues, m \in StaminaMaxima : actors = World(v, m)
  /\ call = NoCall
  /\ frame = NoFrame
  /\ messages = <<>>
  /\ notifications = <<>>
  /\ updates = <<>>
  /\ pending = <<>>
  /\ macros = {}
  /\ hotbar = NoHotbar
  /\ drops = <<>>

NextStamina ==
  \/ \E damage \in DamageAmounts : ApplyDamage("hero", damage)
  \/ \E amount \in HealAmounts : HealStamina("hero", amount)

SpecStamina == InitStamina /\ [][NextStamina]_vars

----------------------------------------------------------------------------
(* The inventory of the actor whose sheet is open *)

\* most items an actor holds in the inventory specification
MaxItems == 3

NoItems == [i \in {} |-> 0]

TraitItem == [type |-> "trait", system |-> [grantsAdvantage |-> FALSE]]

ItemTypes == {"armor", "weapon", "trait"}

\* Item.create with system: {}: every field takes its schema initial
DefaultItem(type) ==
  CASE type = "armor" -> ArmorItem(FALSE, 1, 0)
    [] type = "weapon" -> WeaponItem(FALSE)
    [] OTHER -> TraitItem

\* the armor values the item sheet's form is submitted with
ArmorEdits == {<<0, 0>>, <<3, 1>>, <<2, 3>>}

SheetActor == call.actor

\* a change of the embedded items, after which the host prepares the actor
SetItems(items) ==
  /\ call.op = "sheet"
  /\ actors' = [actors EXCEPT ![SheetActor] = PrepareData([@ EXCEPT !.items = items])]
  /\ UNCHANGED <<call, frame, messages, notifications, updates, pending, macroVars>>

FreeItemIds == (1..MaxItems) \ DOMAIN actors[SheetActor].items

\* RuneActorSheet._onItemCreate
ItemCreate(type) ==
  /\ call.op = "sheet"
  /\ FreeItemIds # {}
  /\ LET id == CHOOSE i \in FreeItemIds : \A j \in FreeItemIds : i <= j
         items == actors[SheetActor].items
     IN  SetItems([i \in DOMAIN items \cup {id} |->
                     IF i = id THEN DefaultItem(type) ELSE items[i]])

\* the .item-delete click: item.delete()
ItemDelete(id) ==
  /\ call.op = "sheet"
  /\ id \in DOMAIN actors[SheetActor].items
  /\ LET items == actors[SheetActor].items
     IN  SetItems([i \in DOMAIN items \ {id} |-> items[i]])

\* item.update({"system.equipped": v}); a type without the field drops it
SetEquipped(item, v) ==
  IF "equipped" \in DOMAIN item.system
  THEN [item EXCEPT !.system.equipped = v]
  ELSE item

\* the .toggle-equipped change: item.update({"system.equipped": checked})
ToggleEquippedChange(id, checked) ==
  /\ call.op = "sheet"
  /\ id \in DOMAIN actors[SheetActor].items
  /\ SetItems([actors[SheetActor].items EXCEPT ![id] = SetEquipped(@, checked)])

\* RuneItem.toggleEquipped
ToggleEquipped(id) ==
  /\ call.op = "sheet"
  /\ id \in DOMAIN actors[SheetActor].items
  /\ LET item == actors[SheetActor].items[id]
     IN  IF "equipped" \in DOMAIN item.system
         THEN SetItems([actors[SheetActor].items EXCEPT
                          ![id] = SetEquipped(@, ~item.system.equipped)])
         ELSE UNCHANGED vars

\* the item sheet's form submitted for an armor item
ItemEdit(id, values) ==
  /\ call.op = "sheet"
  /\ id \in DOMAIN actors[SheetActor].items
  /\ actors[SheetActor].items[id].type = "armor"
  /\ SetItems([actors[SheetActor].items EXCEPT
                 ![id].system.armorValue = values[1],
                 ![id].system.magicResistValue = values[2]])

ItemWorld ==
  [hero |-> PrepareData(StoredActor("Hero", "character",
                                    [might |-> 0, guile |-> 3, vision |-> 9],
                                    10, 10, NoItems)),
   ogre |-> PrepareData(StoredActor("Ogre", "creature",
                                    [might |-> 3, guile |-> 1, vision |-> 0],
                                    10, 10, NoItems))]

InitItems ==
  /\ actors = ItemWorld
  /\ call \in [op : {"sheet"}, actor : {"hero", "ogre"}]
  /\ frame = NoFrame
  /\ messages = <<>>
  /\ notifications = <<>>
  /\ updates = <<>>
  /\ pending = <<>>
  /\ macros = {}
  /\ hotbar = NoHotbar
  /\ drops = <<>>

NextItems ==
  \/ \E type \in ItemTypes : ItemCreate(type)
  \/ \E id \in 1..MaxItems : ItemDelete(id)
  \/ \E id \in 1..MaxItems, checked \in BOOLEAN : ToggleEquippedChange(id, checked)
  \/ \E id \in 1..MaxItems : ToggleEquipped(id)
  \/ \E id \in 1..MaxItems, values \in ArmorEdits : ItemEdit(id, values)

SpecItems == InitItems /\ [][NextItems]_vars

----------------------------------------------------------------------------
(* applyDamage calls that overlap: a call runs up to its await of            *)
(* this.update, the update reaches the actor when the host answers, and the  *)
(* call goes on from there; the host answers in the order it was asked       *)

\* most applyDamage calls of one behaviour of the overlap specification
MaxCalls == 2

\* applyDamage up to await this.update(...): the stamina is read, the new
\* value computed and the update sent
ApplyDamageBegin(id, damage) ==
  LET currentStamina == actors[id].system.stamina.value
      newStamina == NewStamina(currentStamina, damage)
  IN  /\ call = NoCall
      /\ Len(pending) + Len(messages) < MaxCalls
      /\ pending' = Append(pending,
                           [actor |-> id, damage |-> damage,
                            currentStamina |-> currentStamina,
                            newStamina |-> newStamina])
      /\ UNCHANGED <<actors, call, frame, messages, notifications, updates, macroVars>>

\* the update of the oldest waiting call is applied and the actor prepared
\* again; the call resumes and posts its message
ApplyDamageComplete ==
  /\ pending # <<>>
  /\ LET p == Head(pending)
     IN  /\ actors' = [actors EXCEPT ![p.actor] = UpdateStaminaValue(@, p.newStamina)]
         /\ updates' = Append(updates, [actor |-> p.actor, value |-> p.newStamina])
         /\ messages' = Append(messages,
                               [kind |-> "damage", name |-> actors[p.actor].name,
                                damage |-> p.damage,
                                currentStamina |-> p.currentStamina,
                                newStamina |-> p.newStamina,
                                lethal |-> IsLethal(p.newStamina)])
         /\ frame' = [op |-> "applyDamage", actor |-> p.actor, damage |-> p.damage,
                      currentStamina |-> p.currentStamina,
                      newStamina |-> p.newStamina,
                      isLethal |-> IsLethal(p.newStamina)]
  /\ pending' = Tail(pending)
  /\ UNCHANGED <<call, notifications, macroVars>>

\* the amounts of the overlap specification: damage is never negative
OverlapAmounts == 0..MaxAmount

InitOverlap ==
  /\ \E m \in 0..MaxStamina : \E v \in 0..m : actors = World(v, m)
  /\ call = NoCall
  /\ frame = NoFrame
  /\ messages = <<>>
  /\ notifications = <<>>
  /\ updates = <<>>
  /\ pending = <<>>
  /\ macros = {}
  /\ hotbar = NoHotbar
  /\ drops = <<>>

NextOverlap ==
  \/ \E damage \in OverlapAmounts : ApplyDamageBegin("hero", damage)
  \/ ApplyDamageComplete

SpecOverlap == InitOverlap /\ [][NextOverlap]_vars

----------------------------------------------------------------------------
(* The hotbarDrop hook and createActorMacro: a drop starts a run of          *)
(* createActorMacro, which waits for fromUuid and, when it finds no macro,   *)
(* for Macro.create; other drops are handled in between                      *)

\* most hotbar drops of one behaviour
MaxDrops == 3

\* slots of the macro bar that are dropped on
MaxSlots == 2

DropData ==
  [type : {"Actor"}, uuid : {"Actor.hero", "Actor.ogre", "Actor.ghost"}]
    \cup [type : {"Item"}, uuid : {"Item.i1"}]

\* fromUuid(data.uuid): the actor, or nothing for a uuid of no document
FromUuid(uuid) ==
  CASE uuid = "Actor.hero" /\ "hero" \in DOMAIN actors -> "hero"
    [] uuid = "Actor.ogre" /\ "ogre" \in DOMAIN actors -> "ogre"
    [] OTHER -> Null

\* `${actor.name} - Quick Roll`
QuickRollName(actorId) == [actor |-> actors[actorId].name, suffix |-> " - Quick Roll"]

\* `game.actors.get("${actor.id}").rollCheck("might");`
QuickRollCommand(actorId) == [actorId |-> actorId, rollCheck |-> "might"]

\* game.macros.find(m => m.name === ... && m.command === command)
MatchingMacros(actorId) ==
  {m \in macros : m.name = QuickRollName(actorId) /\ m.command = QuickRollCommand(actorId)}

\* game.user.assignHotbarMacro(macro, slot)
AssignHotbarMacro(macroId, slot) ==
  [s \in DOMAIN hotbar \cup {slot} |-> IF s = slot THEN macroId ELSE hotbar[s]]

\* Hooks.on("hotbarDrop"): Actor data starts createActorMacro, which runs up
\* to await fromUuid; any other data is left to the host
HotbarDrop(data, slot) ==
  /\ call = NoCall
  /\ Len(drops) < MaxDrops
  /\ drops' = Append(drops,
                     [data |-> data, slot |-> slot,
                      pc |-> IF data.type = "Actor" THEN "fromUuid" ELSE "host"])
  /\ UNCHANGED <<actors, call, frame, messages, notifications, updates, pending,
                 macros, hotbar>>

\* createActorMacro from the resolved fromUuid to its end or to
\* await Macro.create
DropResolved(i) ==
  /\ i \in DOMAIN drops
  /\ drops[i].pc = "fromUuid"
  /\ LET actor == FromUuid(drops[i].data.uuid)
     IN  IF ~Truthy(actor)
         THEN /\ drops' = [drops EXCEPT ![i].pc = "returned"]
              /\ UNCHANGED <<macros, hotbar>>
         ELSE IF MatchingMacros(actor) # {}
         THEN LET macro == CHOOSE m \in MatchingMacros(actor) :
                             \A n \in MatchingMacros(actor) : m.id <= n.id
              IN  /\ hotbar' = AssignHotbarMacro(macro.id, drops[i].slot)
                  /\ drops' = [drops EXCEPT ![i] =
                                 [@ EXCEPT !.pc = "assigned"] @@ [macro |-> macro.id]]
                  /\ UNCHANGED macros
         ELSE /\ drops' = [drops EXCEPT ![i] =
                             [@ EXCEPT !.pc = "creating"] @@ [actor |-> actor]]
              /\ UNCHANGED <<macros, hotbar>>
  /\ UNCHANGED <<actors, call, frame, messages, notifications, updates, pending>>

\* Macro.create resolves: the macro exists and is assigned to the slot
DropCreated(i) ==
  /\ i \in DOMAIN drops
  /\ drops[i].pc = "creating"
  /\ LET id == Cardinality(macros) + 1
     IN  /\ macros' = macros \cup {[id |-> id, type |-> "script",
                                     name |-> QuickRollName(drops[i].actor),
                                     command |-> QuickRollCommand(drops[i].actor)]}
         /\ hotbar' = AssignHotbarMacro(id, drops[i].slot)
         /\ drops' = [drops EXCEPT ![i] =
                        [@ EXCEPT !.pc = "assigned"] @@ [macro |-> id]]
  /\ UNCHANGED <<actors, call, frame, messages, notifications, updates, pending>>

InitMacros ==
  /\ actors = World(10, 10)
  /\ call = NoCall
  /\ frame = NoFrame
  /\ messages = <<>>
  /\ notifications = <<>>
  /\ updates = <<>>
  /\ pending = <<>>
  /\ macros = {}
  /\ hotbar = NoHotbar
  /\ drops = <<>>

NextMacros ==
  \/ \E data \in DropData, slot \in 1..MaxSlots : HotbarDrop(data, slot)
  \/ \E i \in 1..MaxDrops : DropResolved(i)
  \/ \E i \in 1..MaxDrops : DropCreated(i)

SpecMacros == InitMacros /\ [][NextMacros]_vars

----------------------------------------------------------------------------
(* Properties *)

RollOps == {"rollCheck", "rollAttack"}

LastMessage == messages[Len(messages)]

Rolled == frame.op \in RollOps

\* sel holds two dice of the pool such that no other die of the pool is
\* larger than either of them
TwoLargestOf(sel, pool) ==
  /\ Len(sel) = 2
  /\ \E i, j \in DOMAIN pool :
       /\ i # j
       /\ sel[1] = pool[i]
       /\ sel[2] = pool[j]
       /\ \A k \in DOMAIN pool \ {i, j} : pool[k] <= pool[i] /\ pool[k] <= pool[j]

TwoSmallestOf(sel, pool) ==
  /\ Len(sel) = 2
  /\ \E i, j \in DOMAIN pool :
       /\ i # j
       /\ sel[1] = pool[i]
       /\ sel[2] = pool[j]
       /\ \A k \in DOMAIN pool \ {i, j} : pool[k] >= pool[i] /\ pool[k] >= pool[j]

\* the approach score of the rolling actor, 0 for an approach it lacks
BaseValue(approach) ==
  IF approach \in {"might", "guile", "vision"}
  THEN actors.hero.system.approaches[approach]
  ELSE 0

\* C1: every roll has a pool of 2 + |advantage| dice and selects exactly 2
C1_PoolSizeAndSelection ==
  Rolled =>
    /\ Len(frame.results) =
         (IF frame.advantage < 0 THEN 2 - frame.advantage ELSE 2 + frame.advantage)
    /\ Len(frame.sortedDice) = Len(frame.results)
    /\ Len(frame.selectedDice) = 2
    /\ Len(LastMessage.rolled) = Len(frame.results)
    /\ Len(LastMessage.math.dice) = 2

C1_Witness ==
  /\ frame.op = "rollAttack"
  /\ frame.advantage = 0 - 2
  /\ Len(frame.results) = 4
  /\ Len(frame.selectedDice) = 2

\* C2: with advantage > 0 the selected dice are the two largest of the pool
C2_AdvantageKeepsHighest ==
  (Rolled /\ frame.advantage > 0) =>
    /\ TwoLargestOf(frame.selectedDice, frame.results)
    /\ LastMessage.math.dice = frame.selectedDice

C2_Witness ==
  /\ frame.op = "rollCheck"
  /\ frame.advantage = 2
  /\ frame.results = <<2, 5, 3, 6>>
  /\ frame.selectedDice = <<6, 5>>

\* C3: with advantage < 0 the selected dice are the two smallest of the pool
C3_DisadvantageKeepsLowest ==
  (Rolled /\ frame.advantage < 0) =>
    /\ TwoSmallestOf(frame.selectedDice, frame.results)
    /\ LastMessage.math.dice = frame.selectedDice

C3_Witness ==
  /\ frame.op = "rollCheck"
  /\ frame.advantage = 0 - 1
  /\ frame.results = <<1, 5, 1>>
  /\ frame.selectedDice = <<1, 1>>
  /\ frame.outcomeClass = "ruin"

\* C4: total is the two selected dice plus the approach score, which is 0
\* for an approach the actor does not have
C4_TotalIsDicePlusApproach ==
  Rolled =>
    /\ frame.total =
         frame.selectedDice[1] + frame.selectedDice[2] + BaseValue(frame.approach)
    /\ LastMessage.math.total = frame.total

C4_Witness ==
  /\ Rolled
  /\ frame.approach = "luck"
  /\ frame.selectedDice = <<5, 3>>
  /\ frame.total = 8

\* C5: a check is Glory iff the selected dice are (6,6) and Ruin iff they
\* are (1,1), whatever the total
C5_GloryRuinPrecedence ==
  frame.op = "rollCheck" =>
    /\ (frame.outcomeClass = "glory") <=> (frame.selectedDice = <<6, 6>>)
    /\ (frame.outcomeClass = "ruin") <=> (frame.selectedDice = <<1, 1>>)
    /\ (frame.outcome = "GLORY! (6-6)") <=> (frame.selectedDice = <<6, 6>>)
    /\ (frame.outcome = "RUIN! (1-1)") <=> (frame.selectedDice = <<1, 1>>)
    /\ LastMessage.outcomeClass = frame.outcomeClass
    /\ LastMessage.outcome = frame.outcome

C5_Witness ==
  /\ frame.op = "rollCheck"
  /\ frame.selectedDice = <<1, 1>>
  /\ frame.total >= 10
  /\ frame.outcomeClass = "ruin"

\* C6: without a double six or double one the tier follows the total:
\* Success from 10, Complication from 6 to 9, Failure below 6; every check
\* has one of the five tiers
C6_TotalTiers ==
  frame.op = "rollCheck" =>
    /\ frame.outcomeClass \in {"glory", "ruin", "success", "complication", "failure"}
    /\ frame.selectedDice \notin {<<6, 6>>, <<1, 1>>} =>
         /\ (frame.outcomeClass = "success") <=> (frame.total >= 10)
         /\ (frame.outcomeClass = "complication") <=>
              (frame.total >= 6 /\ frame.total <= 9)
         /\ (frame.outcomeClass = "failure") <=> (frame.total < 6)
         /\ (frame.outcome = "SUCCESS!") <=> (frame.total >= 10)
         /\ (frame.outcome = "COMPLICATION") <=>
              (frame.total >= 6 /\ frame.total <= 9)
         /\ (frame.outcome = "FAILURE") <=> (frame.total < 6)
    /\ LastMessage.outcome = frame.outcome

C6_Witness ==
  /\ frame.op = "rollCheck"
  /\ frame.advantage = 0
  /\ frame.selectedDice = <<4, 2>>
  /\ frame.approachValue = 3
  /\ frame.total = 9
  /\ frame.outcomeClass = "complication"

HasTarget == frame.op = "rollAttack" /\ frame.target \in DOMAIN actors

TargetResistance ==
  IF frame.isMagic
  THEN actors[frame.target].system.magicResist
  ELSE actors[frame.target].system.armor

\* C7: an attack on a target is Glory on (6,6), Ruin on (1,1), otherwise Hit
\* above the resistance, Blocked at it and Miss below it; the resistance is
\* the target's magicResist for a magic attack and its armor otherwise
C7_AttackOutcome ==
  HasTarget =>
    /\ frame.resistance = TargetResistance
    /\ frame.selectedDice = <<6, 6>> => frame.outcome = "GLORY!"
    /\ frame.selectedDice = <<1, 1>> => frame.outcome = "RUIN!"
    /\ frame.selectedDice \notin {<<6, 6>>, <<1, 1>>} =>
         /\ (frame.outcome = "HIT!") <=> (frame.total > TargetResistance)
         /\ (frame.outcome = "BLOCKED") <=> (frame.total = TargetResistance)
         /\ (frame.outcome = "MISS") <=> (frame.total < TargetResistance)
    /\ LastMessage.outcome = frame.outcome
    /\ LastMessage.resistance = TargetResistance

C7_Witness ==
  /\ HasTarget
  /\ frame.isMagic
  /\ frame.approachValue = 0
  /\ frame.selectedDice = <<3, 3>>
  /\ frame.resistance = 6
  /\ frame.outcome = "BLOCKED"

\* C8: the damage of an attack on a target is max(0, total - resistance),
\* never negative, in every tier
C8_Damage ==
  HasTarget =>
    /\ frame.damage =
         (IF frame.total - TargetResistance > 0
          THEN frame.total - TargetResistance ELSE 0)
    /\ frame.damage >= 0
    /\ ("damage" \in DOMAIN LastMessage) <=> (frame.damage > 0)
    /\ "damage" \in DOMAIN LastMessage => LastMessage.damage = frame.damage

C8_Witness ==
  /\ HasTarget
  /\ frame.outcome = "RUIN!"
  /\ frame.total = 11
  /\ frame.resistance = 9
  /\ frame.damage = 2

TargetFields == {"resistance", "damage", "outcome", "outcomeClass"}

\* C9: an attack without a target reports the dice and the total and has
\* neither an outcome tier nor a damage, also on (6,6) and (1,1)
C9_NoTargetNoOutcome ==
  (frame.op = "rollAttack" /\ frame.target \notin DOMAIN actors) =>
    /\ DOMAIN frame \cap TargetFields = {}
    /\ DOMAIN LastMessage \cap (TargetFields \cup {"target"}) = {}
    /\ LastMessage.rolled = frame.sortedDice
    /\ LastMessage.math.total = frame.total

C9_Witness ==
  /\ frame.op = "rollAttack"
  /\ frame.target = Null
  /\ frame.selectedDice = <<6, 6>>
  /\ "outcome" \notin DOMAIN LastMessage

ApplyDamageStep ==
  /\ Len(messages') = Len(messages) + 1
  /\ frame'.op = "applyDamage"

\* C10: applyDamage(amount) stores max(0, currentStamina - amount) as the
\* actor's stamina and reports lethal iff that new stamina is 0; for an
\* amount >= 0 on an actor whose maximum is >= 0 the prepared stamina is
\* that value too
C10_ApplyDamage ==
  [][ApplyDamageStep =>
       LET amount == frame'.damage
           currentStamina == actors.hero.system.stamina.value
           expected == IF currentStamina - amount > 0
                       THEN currentStamina - amount ELSE 0
       IN  /\ actors'.hero.source.stamina.value = expected
           /\ messages'[Len(messages')].newStamina = expected
           /\ messages'[Len(messages')].currentStamina = currentStamina
           /\ messages'[Len(messages')].lethal <=> (expected = 0)
           /\ (amount >= 0 /\ actors.hero.source.stamina.max >= 0) =>
                actors'.hero.system.stamina.value = expected
           /\ actors'.hero.source.stamina.max = actors.hero.source.stamina.max
           /\ actors'.ogre = actors.ogre]_vars

C10_Witness ==
  /\ frame.op = "applyDamage"
  /\ frame.currentStamina = 5
  /\ frame.damage = 7
  /\ actors.hero.system.stamina.value = 0
  /\ LastMessage.lethal

\* C11: applyDamage with amount 0 leaves the actor's stamina as it was,
\* whatever it was; when that stamina is >= 0 the value written and
\* reported is that stamina too
C11_ZeroDamageKeepsStamina ==
  [][(ApplyDamageStep /\ frame'.damage = 0) =>
       LET s == actors.hero.system.stamina.value
       IN  /\ actors'.hero.system.stamina.value = s
           /\ s >= 0 =>
                /\ actors'.hero.source.stamina.value = s
                /\ messages'[Len(messages')].newStamina = s]_vars

C11_Witness ==
  /\ frame.op = "applyDamage"
  /\ frame.damage = 0
  /\ frame.currentStamina = 3
  /\ actors.hero.system.stamina.value = 3
  /\ LastMessage.newStamina = 3

HealStep == frame'.op = "healStamina" /\ frame' # frame

\* C12: after healStamina(amount) with amount >= 0 the actor's stamina is
\* at most its maximum, and so is the value the call writes and reports
C12_HealNeverExceedsMax ==
  [][(HealStep /\ frame'.amount >= 0) =>
       LET maxStamina == actors.hero.system.stamina.max
       IN  /\ actors'.hero.system.stamina.value <= maxStamina
           /\ actors'.hero.system.stamina.max = maxStamina
           /\ updates' # updates =>
                /\ updates'[Len(updates')].value <= maxStamina
                /\ actors'.hero.source.stamina.value <= maxStamina
                /\ messages'[Len(messages')].newStamina <= maxStamina]_vars

C12_Witness ==
  /\ frame.op = "healStamina"
  /\ frame.currentStamina = 3
  /\ frame.amount = 7
  /\ frame.maxStamina = 5
  /\ actors.hero.system.stamina.value = 5
  /\ LastMessage.kind = "healing"

\* C13: a healStamina whose actual healing is 0 changes nothing, writes no
\* update and posts no message; one whose actual healing is > 0 sets the
\* stamina to min(max, current + amount) and posts exactly one message
C13_HealNoOpIsSilent ==
  [][HealStep =>
       LET currentStamina == actors.hero.system.stamina.value
           maxStamina == actors.hero.system.stamina.max
           amount == frame'.amount
           expected == IF currentStamina + amount < maxStamina
                       THEN currentStamina + amount ELSE maxStamina
       IN  /\ expected = currentStamina =>
                /\ actors' = actors
                /\ updates' = updates
                /\ messages' = messages
           /\ expected > currentStamina =>
                /\ actors'.hero.system.stamina.value = expected
                /\ actors'.hero.source.stamina.value = expected
                /\ updates' = Append(updates, [actor |-> "hero", value |-> expected])
                /\ Len(messages') = Len(messages) + 1
                /\ messages'[Len(messages')].kind = "healing"
                /\ messages'[Len(messages')].actualHealing = expected - currentStamina
                /\ messages'[Len(messages')].newStamina = expected]_vars

C13_Witness ==
  /\ Len(messages) = 1
  /\ messages[1].kind = "healing"
  /\ Len(updates) = 1
  /\ frame.op = "healStamina"
  /\ frame.amount > 0
  /\ frame.actualHealing = 0
  /\ frame.currentStamina = frame.maxStamina

StaminaOps == {"applyDamage", "healStamina"}

\* C15: after applyDamage and healStamina calls with any integer amounts
\* the actor's stamina value lies between 0 and its maximum
C15_StaminaWithinBounds ==
  frame.op \in StaminaOps =>
    /\ 0 <= actors.hero.system.stamina.value
    /\ actors.hero.system.stamina.value <= actors.hero.system.stamina.max

\* the armor values of the equipped armor items among items 1..n
RECURSIVE EquippedArmor(_, _, _)
EquippedArmor(items, field, n) ==
  IF n = 0 THEN 0
  ELSE EquippedArmor(items, field, n - 1)
       + (IF n \in DOMAIN items /\ items[n].type = "armor" /\ items[n].system.equipped
          THEN items[n].system[field] ELSE 0)

ArmorAsClaimed(actor, field) ==
  LET total == EquippedArmor(actor.items, field, MaxItems)
  IN  IF actor.type = "character" /\ total > 3 THEN 3 ELSE total

RuneOps == {"RUNE.rollCheck", "RUNE.rollAttack"}

\* C16: window.RUNE.rollCheck / rollAttack with an actor id that resolves to
\* no actor raises an error notification, rolls no dice, creates no chat
\* message and changes no actor
C16_MissingActorReported ==
  [][(call.op \in RuneOps /\ call.actorId \notin DOMAIN actors /\ call' # call) =>
       /\ notifications' = Append(notifications, "Actor not found!")
       /\ messages' = messages
       /\ actors' = actors
       /\ updates' = updates
       /\ "results" \notin DOMAIN frame']_vars

C16_Witness ==
  /\ frame.op = "RUNE.rollAttack"
  /\ ~frame.found
  /\ notifications = <<"Actor not found!">>
  /\ messages = <<>>

\* C17: once two applyDamage calls with amounts a and b on an actor with
\* stamina s have both completed, the stamina is max(0, s - a - b), however
\* the two calls overlapped
C17_NoDamageLost ==
  (Len(messages) = 2 /\ pending = <<>>) =>
    LET s == messages[1].currentStamina
        a == messages[1].damage
        b == messages[2].damage
    IN  actors.hero.system.stamina.value = (IF s - a - b > 0 THEN s - a - b ELSE 0)

\* C18: at most one quick-roll macro exists per actor, whatever the drops
\* and however they overlap, and every drop of an actor that has ended left
\* that actor's macro in the slot it was dropped on
C18_OneQuickRollMacro ==
  /\ \A actorId \in DOMAIN actors : Cardinality(MatchingMacros(actorId)) <= 1
  /\ \A i \in DOMAIN drops :
       drops[i].pc = "assigned" =>
         \E m \in MatchingMacros(FromUuid(drops[i].data.uuid)) : m.id = drops[i].macro

====
